---- MODULE Spec2Model ----
(***************************************************************************)
(* Model of the game orchestrator of virgundia                             *)
(* (src/components/game/game.ts): the keydown listener, the PLAYER_MOVE,   *)
(* WINDOW_OPEN and WINDOW_CLOSE handlers, the encounter check with its     *)
(* weighted sampling, and the asynchronous text-generation request.        *)
(*                                                                         *)
(* One step of the model is one turn of the browser's event loop (a key    *)
(* press, a click on a window's button, the settling of a fetch or of a    *)
(* body read), or the microtask that runs the awaiting continuation of     *)
(* checkForEncounters.  Within a turn the handlers run synchronously; they *)
(* are modelled as functions on a "machine" record                         *)
(*   [state, requests, windows, calls, check]                              *)
(* where calls is the ordered trace of what the turn invoked.              *)
(*                                                                         *)
(* Math.random() is a draw n / Den with n in 0 .. Den-1.  Canvas drawing   *)
(* (draw, drawUI) writes nothing the model reads and is left out.          *)
(***************************************************************************)
EXTENDS Integers, Sequences, FiniteSets, TLC

(* ------------------------------ bounds ------------------------------- *)

\* the player walks on the cells -MaxCoord .. MaxCoord in x and in y
MaxCoord == 1
\* denominator of the draw of the trigger test
DrawDen == 4
\* denominator of the draw of the roll
RollDen == 6
\* denominator of the draw of the level
LevelDen == 4

(* ------------------------ program constants --------------------------- *)

\* encounterChance = difficulty / 10
ChanceDivisor == 10
\* getAdjacentTerrain(x, y, 2)
AdjacentRadius == 2
\* energy, health, maxEnergy, maxHealth of the initial player
InitialStat == 100

VARIABLES
    state,      \* StateManager's tree: player, ui, world
    requests,   \* text-generation requests in flight, oldest first
    windows,    \* the Window objects on screen, oldest first
    pending,    \* the settled promise whose continuation has not run yet
    started,    \* start() has been called
    MONSTERS,   \* the monster catalog, in iteration order
    last        \* what the last turn did: op, key, discarded, calls, check

vars == <<state, requests, windows, pending, started, MONSTERS, last>>

Draws == 0 .. DrawDen - 1
RollDraws == 0 .. RollDen - 1
LevelDraws == 0 .. LevelDen - 1
Coords == (0 - MaxCoord) .. MaxCoord

(* --------------------------- world (lib) ------------------------------ *)

Biomes == <<"forest", "desert", "swamp">>

\* the terrain table: difficulty drives the encounter probability
Terrains ==
    << [type |-> "road",   difficulty |-> 0],
       [type |-> "grass",  difficulty |-> 5],
       [type |-> "thicket", difficulty |-> 10] >>

\* World.getTerrain(x, y): a deterministic function of the coordinates
GetTerrain(x, y) ==
    [ terrain   |-> Terrains[((x + 2 * y) % 3) + 1],
      biomeName |-> Biomes[((x + y) % 3) + 1] ]

\* World.getAdjacentTerrain(x, y, radius): the cells of the square of that
\* radius around (x, y), row by row, without the centre
GetAdjacentTerrain(x, y, radius) ==
    LET side == 2 * radius + 1
        centre == radius * side + radius
        cell(i) == IF i - 1 < centre THEN i - 1 ELSE i
    IN [i \in 1 .. side * side - 1 |->
          LET dx == (cell(i) % side) - radius
              dy == (cell(i) \div side) - radius
          IN [x |-> x + dx, y |-> y + dy, terrain |-> GetTerrain(x + dx, y + dy)]]

(* ------------------------- monster catalogs --------------------------- *)

Monster(name, rarity, minLevel, maxLevel, baseHealth, validBiomes) ==
    [ name |-> name, rarity |-> rarity, minLevel |-> minLevel,
      maxLevel |-> maxLevel, baseHealth |-> baseHealth,
      validBiomes |-> validBiomes ]

\* the catalogs the model is run with: MONSTERS is one of them
Catalogs ==
    { << Monster("rat", 1, 1, 3, 5, <<>>),
         Monster("dragon", 5, 2, 2, 20, <<>>) >>,
      << Monster("wolf", 2, 1, 2, 8, <<"forest">>),
         Monster("ghoul", 2, 3, 3, 7, <<"forest", "desert">>),
         Monster("scorpion", 4, 1, 1, 3, <<"desert">>) >> }

(* ------------------------------ state --------------------------------- *)

\* null for world.currentTerrain and world.currentBiome
NullTerrain == [null |-> TRUE]
NullBiome == "null"

\* Game.createInitialState
CreateInitialState ==
    [ player |-> [ abilities |-> {}, conditions |-> {}, requirements |-> {},
                   position |-> [x |-> 0, y |-> 0],
                   energy |-> InitialStat, health |-> InitialStat,
                   maxEnergy |-> InitialStat, maxHealth |-> InitialStat,
                   warned |-> FALSE, xp |-> 0 ],
      ui     |-> [ isPaused |-> FALSE, windows |-> <<>> ],
      world  |-> [ currentBiome |-> NullBiome, currentTerrain |-> NullTerrain ] ]

NoCheck == [outcome |-> "none"]
NoPending == [kind |-> "none"]

Machine(s, r, w) ==
    [state |-> s, requests |-> r, windows |-> w, calls |-> <<>>, check |-> NoCheck]

Call(m, c) == [m EXCEPT !.calls = Append(@, c)]

\* the shallow merge of a partial update into a subtree
Merge(subtree, partial) ==
    [f \in DOMAIN subtree |-> IF f \in DOMAIN partial THEN partial[f] ELSE subtree[f]]

\* StateManager.dispatch(key, partial); its subscribers only redraw
Dispatch(m, key, partial) ==
    Call([m EXCEPT !.state[key] = Merge(@, partial)],
         [op |-> "dispatch", key |-> key, partial |-> partial])


(* ------------------------ pause and world info ------------------------ *)

\* mutant: the pause dispatch also resets the window list
PauseResettingWindows(m) ==
    Dispatch(Call(m, [op |-> "pause"]), "ui", [isPaused |-> TRUE, windows |-> <<>>])

\* Game.pause
Pause(m) == Dispatch(Call(m, [op |-> "pause"]), "ui", [isPaused |-> TRUE])

\* Game.resume
Resume(m) == Dispatch(Call(m, [op |-> "resume"]), "ui", [isPaused |-> FALSE])

\* Game.updatePlayerWorldInfo
UpdatePlayerWorldInfo(m) ==
    LET position == m.state.player.position
        t == GetTerrain(position.x, position.y)
    IN Dispatch(Call(m, [op |-> "updatePlayerWorldInfo"]), "world",
                [currentBiome |-> t.biomeName, currentTerrain |-> t.terrain])

(* --------------------------- window events ---------------------------- *)

\* mutant: the window is opened without pausing
OnWindowOpenNoPause(m, windowData) == [m EXCEPT !.windows = Append(@, windowData)]

\* the WINDOW_OPEN handler: pause, then new Window(windowData)
OnWindowOpen(m, windowData) ==
    LET m1 == Pause(m)
    IN [m1 EXCEPT !.windows = Append(@, windowData)]

\* events.emit(WINDOW_OPEN, windowData): the handler runs synchronously
EmitWindowOpen(m, windowData) ==
    OnWindowOpen(Call(m, [op |-> "emit", event |-> "WINDOW_OPEN", data |-> windowData]),
                 windowData)

\* the WINDOW_CLOSE handler: resume (and draw)
OnWindowClose(m) == Resume(m)

\* Game.help
Help(m) ==
    EmitWindowOpen(Call(m, [op |-> "help"]),
                   [title |-> "Help & Controls", content |-> <<"Arrow Keys: Movement">>,
                    buttons |-> <<"Close">>])

(* ------------------------- encounter sampling ------------------------- *)

\* array.includes
Includes(seq, v) == \E i \in 1 .. Len(seq) : seq[i] = v

\* mutant: the biome restriction is not applied
ValidInAnyBiome(monster, biome) == TRUE

\* the filter's predicate: no biome restriction, or the current biome allowed
ValidInBiome(monster, biome) ==
    Len(monster.validBiomes) = 0 \/ Includes(monster.validBiomes, biome)

RECURSIVE Filter(_, _)
\* Object.values(MONSTERS).filter(...): the valid monsters, in catalog order
Filter(catalog, biome) ==
    IF catalog = <<>> THEN <<>>
    ELSE (IF ValidInBiome(Head(catalog), biome) THEN <<Head(catalog)>> ELSE <<>>)
         \o Filter(Tail(catalog), biome)

RECURSIVE MathMax(_)
\* Math.max(...rarities) of a non-empty list (of an empty one it is -Infinity,
\* which the code never uses in arithmetic: the reduce and the find do not iterate)
MathMax(rarities) ==
    IF Len(rarities) = 1 THEN rarities[1]
    ELSE LET rest == MathMax(Tail(rarities))
         IN IF rarities[1] > rest THEN rarities[1] ELSE rest

Rarities(validMonsters) == [i \in 1 .. Len(validMonsters) |-> validMonsters[i].rarity]

\* mutant: the rarity of the first candidate instead of the maximum
FirstRarity(validMonsters) == validMonsters[1].rarity

\* highestRarity
HighestRarity(validMonsters) == MathMax(Rarities(validMonsters))

\* the weight of one monster: highestRarity - monster.rarity + 1
Weight(highestRarity, monster) == highestRarity - monster.rarity + 1

RECURSIVE Reduce(_, _, _)
\* validMonsters.reduce((sum, monster) => sum + weight, 0)
Reduce(validMonsters, highestRarity, sum) ==
    IF validMonsters = <<>> THEN sum
    ELSE Reduce(Tail(validMonsters), highestRarity,
                sum + Weight(highestRarity, Head(validMonsters)))

\* totalWeight; 0 for an empty list
TotalWeight(validMonsters) ==
    IF validMonsters = <<>> THEN 0
    ELSE Reduce(validMonsters, HighestRarity(validMonsters), 0)

\* mutant: roll > currentWeight
RollAbove(rollNum, rollDen, currentWeight) == rollNum > currentWeight * rollDen

\* mutant: roll <= currentWeight
RollAtMost(rollNum, rollDen, currentWeight) == rollNum <= currentWeight * rollDen

\* roll < currentWeight, for the roll rollNum / rollDen
RollBelow(rollNum, rollDen, currentWeight) == rollNum < currentWeight * rollDen

RECURSIVE Find(_, _, _, _, _, _)
\* validMonsters.find(...) from index i on with the running currentWeight:
\* the index of the first monster the predicate accepts, 0 for undefined
Find(validMonsters, highestRarity, i, currentWeight, rollNum, rollDen) ==
    IF i > Len(validMonsters) THEN 0
    ELSE LET cw == currentWeight + Weight(highestRarity, validMonsters[i])
         IN IF RollBelow(rollNum, rollDen, cw) THEN i
            ELSE Find(validMonsters, highestRarity, i + 1, cw, rollNum, rollDen)

\* the index of chosenMonster in validMonsters for the roll rollNum / rollDen:
\* find(...) || validMonsters[0]; 0 when both are undefined
ChosenIndex(validMonsters, rollNum, rollDen) ==
    IF validMonsters = <<>> THEN 0
    ELSE LET found == Find(validMonsters, HighestRarity(validMonsters), 1, 0,
                           rollNum, rollDen)
         IN IF found # 0 THEN found ELSE 1

\* mutant: Math.floor in place of Math.round
MathFloor(num, den) == num \div den

\* Math.round(q) for q = num / den: floor(q + 1/2), halves round up
MathRound(num, den) == (2 * num + den) \div (2 * den)

\* level: Math.round(Math.random() * (maxLevel - minLevel) + minLevel)
\* for the draw n / LevelDen
RollLevel(monster, n) ==
    MathRound(n * (monster.maxLevel - monster.minLevel) + monster.minLevel * LevelDen,
              LevelDen)

\* the monster instance built from chosenMonster
BuildMonster(chosenMonster, n) ==
    LET level == RollLevel(chosenMonster, n)
    IN [ name |-> chosenMonster.name, level |-> level,
         maxHealth |-> level * chosenMonster.baseHealth ]


(* ------------------------- the encounter check ------------------------ *)

\* Math.random() > encounterChance for the draw n / DrawDen, with
\* encounterChance = difficulty / 10: the check returns without an encounter
ChanceExceeded(difficulty, n) == n * ChanceDivisor > difficulty * DrawDen

\* mutant: the request is issued without pausing
GenerateAiNoPause(m, prompt) ==
    Call([Call(m, [op |-> "generateAi"]) EXCEPT
            !.requests = Append(@, [prompt |-> prompt, stage |-> "fetch"])],
         [op |-> "fetch"])

\* the synchronous part of Game.generateAi: pause, then the fetch is issued
GenerateAi(m, prompt) ==
    LET m1 == Pause(Call(m, [op |-> "generateAi"]))
    IN Call([m1 EXCEPT !.requests = Append(@, [prompt |-> prompt, stage |-> "fetch"])],
            [op |-> "fetch"])

\* the description of the current cell and of its neighbourhood
CellText(x, y, biome, type) == [x |-> x, y |-> y, biome |-> biome, type |-> type]

\* getAdjacentTerrain(x, y, 2) mapped to the descriptions of its cells
Surrounding(x, y) ==
    LET adj == GetAdjacentTerrain(x, y, AdjacentRadius)
    IN [i \in 1 .. Len(adj) |->
          CellText(adj[i].x, adj[i].y, adj[i].terrain.biomeName,
                   adj[i].terrain.terrain.type)]

\* Surrounding on the cells the player can stand on, computed once
SurroundingTable == [c \in Coords \X Coords |-> Surrounding(c[1], c[2])]

SurroundingTerrain(position) == SurroundingTable[<<position.x, position.y>>]

\* the body of Game.checkForEncounters up to its await, reading the world
\* subtree world, for the draws n1 / DrawDen (trigger), n2 / RollDen (roll)
\* and n3 / LevelDen (level)
CheckBody(m, world, n1, n2, n3) ==
    LET currentState == m.state
        m0 == Call(m, [op |-> "checkForEncounters"])
    IN IF world.currentTerrain = NullTerrain
       THEN [m0 EXCEPT !.check = [outcome |-> "noTerrain"]]
       ELSE IF ChanceExceeded(world.currentTerrain.difficulty, n1)
       THEN [m0 EXCEPT !.check = [outcome |-> "noTrigger", draw |-> n1,
                                  difficulty |-> world.currentTerrain.difficulty]]
       ELSE
         LET validMonsters == Filter(MONSTERS, world.currentBiome)
             totalWeight == TotalWeight(validMonsters)
             rollNum == n2 * totalWeight
             chosen == ChosenIndex(validMonsters, rollNum, RollDen)
         IN IF chosen = 0
            THEN \* chosenMonster is undefined: reading chosenMonster.abilities
                 \* throws, the promise of the check is rejected
                 [Call(m0, [op |-> "throw", error |-> "TypeError"]) EXCEPT
                    !.check = [outcome |-> "threw", draw |-> n1,
                               difficulty |-> world.currentTerrain.difficulty,
                               biome |-> world.currentBiome,
                               validMonsters |-> validMonsters]]
            ELSE
              LET chosenMonster == validMonsters[chosen]
                  monster == BuildMonster(chosenMonster, n3)
                  position == currentState.player.position
                  prompt == [ currentTerrain |->
                                CellText(position.x, position.y, world.currentBiome,
                                         world.currentTerrain.type),
                              monster |-> monster,
                              playerState |-> currentState.player,
                              surroundingTerrain |-> SurroundingTerrain(position) ]
                  m1 == GenerateAi(m0, prompt)
              IN [m1 EXCEPT
                    !.check = [outcome |-> "requested", draw |-> n1,
                               difficulty |-> world.currentTerrain.difficulty,
                               biome |-> world.currentBiome,
                               validMonsters |-> validMonsters,
                               highestRarity |-> HighestRarity(validMonsters),
                               weights |-> [i \in 1 .. Len(validMonsters) |->
                                  Weight(HighestRarity(validMonsters), validMonsters[i])],
                               totalWeight |-> totalWeight,
                               rollNum |-> rollNum, rollDen |-> RollDen,
                               chosen |-> chosen, chosenMonster |-> chosenMonster,
                               levelDraw |-> n3, monster |-> monster]]

\* mutant: a terrain that was never observed is replaced by a default one
CheckWithDefaultTerrain(m, n1, n2, n3) ==
    CheckBody(m,
              IF m.state.world.currentTerrain = NullTerrain
              THEN [currentBiome |-> Biomes[1], currentTerrain |-> Terrains[3]]
              ELSE m.state.world,
              n1, n2, n3)

\* Game.checkForEncounters: currentState = state.getState()
CheckForEncounters(m, n1, n2, n3) == CheckBody(m, m.state.world, n1, n2, n3)

\* mutant: the handler stops after a check that triggered
OnPlayerMoveStopsOnEncounter(m, n1, n2, n3) ==
    LET c == CheckForEncounters(m, n1, n2, n3)
    IN IF c.check.outcome \in {"threw", "requested"} THEN c
       ELSE UpdatePlayerWorldInfo(c)

\* the PLAYER_MOVE handler: checkForEncounters(), updatePlayerWorldInfo(), draw()
OnPlayerMove(m, n1, n2, n3) ==
    UpdatePlayerWorldInfo(CheckForEncounters(m, n1, n2, n3))

(* ------------------------------ player -------------------------------- *)

\* Player.move(dx, dy): the new position is dispatched, PLAYER_MOVE is emitted
PlayerMove(m, dx, dy, n1, n2, n3) ==
    LET position == m.state.player.position
        m1 == Dispatch(Call(m, [op |-> "player.move", dx |-> dx, dy |-> dy]), "player",
                       [position |-> [x |-> position.x + dx, y |-> position.y + dy]])
    IN OnPlayerMove(Call(m1, [op |-> "emit", event |-> "PLAYER_MOVE"]), n1, n2, n3)

\* Player.rest and Player.search
PlayerRest(m) == Call(m, [op |-> "player.rest"])
PlayerSearch(m) == Call(m, [op |-> "player.search"])

\* Player.openInventory: the inventory is a window
PlayerOpenInventory(m) ==
    EmitWindowOpen(Call(m, [op |-> "player.openInventory"]),
                   [title |-> "Inventory", content |-> <<>>, buttons |-> <<"Close">>])

(* ----------------------------- key presses ---------------------------- *)

Keys == {"ArrowLeft", "ArrowRight", "ArrowUp", "ArrowDown",
         "r", "i", "s", "h", "Escape", "q"}

\* the switch of Game.handleKeyPress
KeySwitch(m, key, n1, n2, n3) ==
    CASE key = "ArrowLeft"  -> PlayerMove(m, -1, 0, n1, n2, n3)
      [] key = "ArrowRight" -> PlayerMove(m, 1, 0, n1, n2, n3)
      [] key = "ArrowUp"    -> PlayerMove(m, 0, -1, n1, n2, n3)
      [] key = "ArrowDown"  -> PlayerMove(m, 0, 1, n1, n2, n3)
      [] key = "r"          -> PlayerRest(m)
      [] key = "i"          -> PlayerOpenInventory(m)
      [] key = "s"          -> PlayerSearch(m)
      [] key = "h"          -> Help(m)
      [] key = "Escape"     -> Help(m)
      [] OTHER              -> m

\* the keydown listener lets the event through to handleKeyPress (line 82)
ListenerPasses(s) == ~s.ui.isPaused

\* handleKeyPress goes on to its switch (line 113)
HandlerPasses(s) == ~s.ui.isPaused

\* mutant: the pause flag is not consulted
KeyProcessedAlways(s) == TRUE

\* a key press is processed: it passes both checks of the pause flag
KeyProcessed(s) == ListenerPasses(s) /\ HandlerPasses(s)

\* the keydown listener with Game.handleKeyPress
HandleKeyDown(m, key, n1, n2, n3) ==
    IF KeyProcessed(m.state) THEN KeySwitch(m, key, n1, n2, n3) ELSE m


(* ------------------------------ actions ------------------------------- *)

Turn(op, key, processed, m) ==
    [op |-> op, key |-> key, processed |-> processed, calls |-> m.calls,
     check |-> m.check]

\* the machine's state, requests and windows become the next state's
Commit(m) ==
    /\ state' = m.state
    /\ requests' = m.requests
    /\ windows' = m.windows

Arrow(key) ==
    CASE key = "ArrowLeft"  -> [x |-> -1, y |-> 0]
      [] key = "ArrowRight" -> [x |-> 1, y |-> 0]
      [] key = "ArrowUp"    -> [x |-> 0, y |-> -1]
      [] key = "ArrowDown"  -> [x |-> 0, y |-> 1]
      [] OTHER              -> [x |-> 0, y |-> 0]

\* the walk stays on the cells of the model
OnGrid(position, key) ==
    /\ position.x + Arrow(key).x \in Coords
    /\ position.y + Arrow(key).y \in Coords

\* Math.random() is called only where the code reaches it: the draws of a
\* turn that does not reach a call are fixed to 0
IsArrow(key) == key \in {"ArrowLeft", "ArrowRight", "ArrowUp", "ArrowDown"}

DrawsIf(reached, draws) == IF reached THEN draws ELSE {0}

ReachesTriggerDraw(key) ==
    /\ KeyProcessed(state)
    /\ IsArrow(key)
    /\ state.world.currentTerrain # NullTerrain

ReachesRollDraw(key, n1) ==
    /\ ReachesTriggerDraw(key)
    /\ ~ChanceExceeded(state.world.currentTerrain.difficulty, n1)

ReachesLevelDraw(key, n1) ==
    /\ ReachesRollDraw(key, n1)
    /\ Filter(MONSTERS, state.world.currentBiome) # <<>>

\* a keydown event: one turn of the event loop
KeyDown(key) ==
    /\ pending = NoPending
    /\ OnGrid(state.player.position, key)
    /\ \E n1 \in DrawsIf(ReachesTriggerDraw(key), Draws) :
       \E n2 \in DrawsIf(ReachesRollDraw(key, n1), RollDraws) :
       \E n3 \in DrawsIf(ReachesLevelDraw(key, n1), LevelDraws) :
         LET m == HandleKeyDown(Machine(state, requests, windows), key, n1, n2, n3)
         IN /\ Commit(m)
            /\ last' = Turn("keydown", key, KeyProcessed(state), m)
    /\ UNCHANGED <<pending, started, MONSTERS>>

\* Game.start, called once by the page that constructed the game, before
\* any window or encounter pauses it
Start ==
    /\ ~started
    /\ pending = NoPending
    /\ ~state.ui.isPaused
    /\ LET m0 == Machine(state, requests, windows)
           m == UpdatePlayerWorldInfo(Dispatch(Call(m0, [op |-> "start"]), "ui",
                                               [isPaused |-> FALSE]))
       IN /\ Commit(m)
          /\ last' = Turn("start", "", FALSE, m)
    /\ started' = TRUE
    /\ UNCHANGED <<pending, MONSTERS>>

RemoveAt(seq, i) == SubSeq(seq, 1, i - 1) \o SubSeq(seq, i + 1, Len(seq))

\* a click on the button of window i: the window goes and emits WINDOW_CLOSE
WindowClose(i) ==
    /\ pending = NoPending
    /\ i \in 1 .. Len(windows)
    /\ LET m0 == Machine(state, requests, RemoveAt(windows, i))
           m == OnWindowClose(Call(m0, [op |-> "emit", event |-> "WINDOW_CLOSE"]))
       IN /\ Commit(m)
          /\ last' = Turn("windowClose", "", FALSE, m)
    /\ UNCHANGED <<pending, started, MONSTERS>>

Texts == {"a wolf appears", ""}

\* the await of fetch settles for request i: the response arrives and the
\* body is read next
FetchResolves(i) ==
    /\ pending = NoPending
    /\ i \in 1 .. Len(requests)
    /\ requests[i].stage = "fetch"
    /\ requests' = [requests EXCEPT ![i].stage = "json"]
    /\ last' = Turn("fetchResolves", "", FALSE, Machine(state, requests', windows))
    /\ UNCHANGED <<state, windows, pending, started, MONSTERS>>

\* a rejection passes through generateAi and checkForEncounters, which catch
\* nothing: resume() is not reached and nothing is emitted
Rejected(op, i) ==
    /\ requests' = RemoveAt(requests, i)
    /\ last' = Turn(op, "", FALSE,
                    Call(Machine(state, requests', windows),
                         [op |-> "unhandledrejection"]))
    /\ UNCHANGED <<state, windows, pending, started, MONSTERS>>

\* the fetch fails (network failure)
FetchRejects(i) ==
    /\ pending = NoPending
    /\ i \in 1 .. Len(requests)
    /\ requests[i].stage = "fetch"
    /\ Rejected("fetchRejects", i)

\* mutant: data.text is returned without resume()
JsonResolvesNoResume(i, text) ==
    /\ pending = NoPending
    /\ i \in 1 .. Len(requests)
    /\ requests[i].stage = "json"
    /\ LET m == Machine(state, RemoveAt(requests, i), windows)
       IN /\ Commit(m)
          /\ last' = Turn("jsonResolves", "", FALSE, m)
    /\ pending' = [kind |-> "encounterDescription", text |-> text]
    /\ UNCHANGED <<started, MONSTERS>>

\* await resp.json() settles with a body: resume(), return data.text; the
\* continuation of checkForEncounters is queued as a microtask
JsonResolves(i, text) ==
    /\ pending = NoPending
    /\ i \in 1 .. Len(requests)
    /\ requests[i].stage = "json"
    /\ LET m == Resume(Machine(state, RemoveAt(requests, i), windows))
       IN /\ Commit(m)
          /\ last' = Turn("jsonResolves", "", FALSE, m)
    /\ pending' = [kind |-> "encounterDescription", text |-> text]
    /\ UNCHANGED <<started, MONSTERS>>

\* the body is malformed: resp.json() rejects
JsonRejects(i) ==
    /\ pending = NoPending
    /\ i \in 1 .. Len(requests)
    /\ requests[i].stage = "json"
    /\ Rejected("jsonRejects", i)

\* the continuation of checkForEncounters after its await: WINDOW_OPEN is
\* emitted with the description
Continuation ==
    /\ pending # NoPending
    /\ LET m == EmitWindowOpen(Machine(state, requests, windows),
                               [title |-> "Encounter!", content |-> <<pending.text>>,
                                buttons |-> <<"Close">>])
       IN /\ Commit(m)
          /\ last' = Turn("continuation", "", FALSE, m)
    /\ pending' = NoPending
    /\ UNCHANGED <<started, MONSTERS>>

Init ==
    /\ state = CreateInitialState
    /\ requests = <<>>
    /\ windows = <<>>
    /\ pending = NoPending
    /\ started = FALSE
    /\ MONSTERS \in Catalogs
    /\ last = Turn("new Game", "", FALSE, Machine(state, requests, windows))

Next ==
    \/ \E key \in Keys : KeyDown(key)
    \/ Start
    \/ \E i \in 1 .. Len(windows) : WindowClose(i)
    \/ \E i \in 1 .. Len(requests) : FetchResolves(i)
    \/ \E i \in 1 .. Len(requests) : FetchRejects(i)
    \/ \E i \in 1 .. Len(requests), text \in Texts : JsonResolves(i, text)
    \/ \E i \in 1 .. Len(requests) : JsonRejects(i)
    \/ Continuation

Spec == Init /\ [][Next]_vars


\* a request in flight settles one of its awaits
Settle ==
    \E i \in 1 .. Len(requests) :
       \/ FetchResolves(i)
       \/ FetchRejects(i)
       \/ \E text \in Texts : JsonResolves(i, text)
       \/ JsonRejects(i)

\* every await of a request settles in the end, and a queued continuation
\* runs; key presses and clicks may or may not come
FairSpec == Spec /\ WF_vars(Settle) /\ WF_vars(Continuation)

(* ------------------------------ claims -------------------------------- *)

IsEmit(c, event) == c.op = "emit" /\ c.event = event
IsPauseDispatch(c) ==
    c.op = "dispatch" /\ c.key = "ui" /\ c.partial = [isPaused |-> TRUE]
IsFetch(c) == c.op = "fetch"

Indices(calls, P(_)) == {i \in 1 .. Len(calls) : P(calls[i])}
EmitsWindowOpen(calls) == \E i \in 1 .. Len(calls) : IsEmit(calls[i], "WINDOW_OPEN")
EmitsPlayerMove(calls) == \E i \in 1 .. Len(calls) : IsEmit(calls[i], "PLAYER_MOVE")

\* C1: a key press that arrives while ui.isPaused is true is discarded: the
\* turn invokes nothing (no player action, no help, no emit) and leaves the
\* state tree, the requests and the windows as they were.
C1_PausedKeyDiscarded ==
    [][ (last'.op = "keydown" /\ state.ui.isPaused)
        => /\ last'.calls = <<>>
           /\ ~last'.processed
           /\ state' = state
           /\ requests' = requests
           /\ windows' = windows ]_vars

\* an arrow key was pressed and discarded while the game was paused
C1_Witness ==
    /\ last.op = "keydown"
    /\ last.key = "ArrowLeft"
    /\ ~last.processed
    /\ state.ui.isPaused

RequestFailed == last.op \in {"fetchRejects", "jsonRejects"}

\* C4: after a failed text-generation request (the fetch rejects or the body
\* is malformed) the game is resumed: ui.isPaused eventually becomes false.
C4_FailureResumes == [](RequestFailed => <>(~state.ui.isPaused))

CheckTriggered == last.check.outcome \in {"threw", "requested"}

Throws(calls) == \E i \in 1 .. Len(calls) : calls[i].op = "throw"

\* C5: an encounter that triggers with no candidate after the biome filter is
\* skipped: sampling raises no error, nothing is paused, requested or opened.
C5_EmptyCandidatesSkipped ==
    (CheckTriggered /\ last.check.validMonsters = <<>>)
    => /\ ~Throws(last.calls)
       /\ ~state.ui.isPaused
       /\ requests = <<>>
       /\ ~EmitsWindowOpen(last.calls)

CheckDrew == last.check.outcome \in {"noTrigger", "threw", "requested"}

\* C6: the encounter check triggers if and only if the draw u is less than
\* difficulty / 10 (here u = draw / DrawDen).
C6_TriggerIffBelowChance ==
    CheckDrew
    => (CheckTriggered
        <=> last.check.draw * ChanceDivisor < last.check.difficulty * DrawDen)

\* C7: a PLAYER_MOVE whose check reads no current terrain causes no encounter:
\* the turn pauses nothing, issues no request and emits no WINDOW_OPEN.
C7_NoTerrainNoEncounter ==
    [][ ( /\ last'.op = "keydown"
          /\ EmitsPlayerMove(last'.calls)
          /\ state.world.currentTerrain = NullTerrain )
        => /\ ~state'.ui.isPaused
           /\ requests' = requests
           /\ Indices(last'.calls, IsPauseDispatch) = {}
           /\ Indices(last'.calls, IsFetch) = {}
           /\ ~EmitsWindowOpen(last'.calls) ]_vars

\* a move was checked before any terrain had been observed
C7_Witness ==
    /\ last.op = "keydown"
    /\ EmitsPlayerMove(last.calls)
    /\ last.check.outcome = "noTerrain"

InCatalog(name, biome) ==
    \E i \in 1 .. Len(MONSTERS) :
       /\ MONSTERS[i].name = name
       /\ \/ MONSTERS[i].validBiomes = <<>>
          \/ \E j \in 1 .. Len(MONSTERS[i].validBiomes) :
               MONSTERS[i].validBiomes[j] = biome

\* C8: the monster chosen for an encounter, and the monster of every request
\* payload, is a catalog entry whose allowed biomes are empty or contain the
\* current biome.
C8_ChosenMonsterValidInBiome ==
    /\ last.check.outcome = "requested"
       => /\ InCatalog(last.check.chosenMonster.name, last.check.biome)
          /\ last.check.biome = requests[Len(requests)].prompt.currentTerrain.biome
    /\ \A i \in 1 .. Len(requests) :
         InCatalog(requests[i].prompt.monster.name,
                   requests[i].prompt.currentTerrain.biome)

\* a monster with a biome restriction was chosen
C8_Witness ==
    /\ last.check.outcome = "requested"
    /\ last.check.chosenMonster.validBiomes # <<>>

RECURSIVE SumTo(_, _)
SumTo(f, n) == IF n = 0 THEN 0 ELSE f[n] + SumTo(f, n - 1)

\* C9: highestRarity is the maximum rarity of the candidates, each weight is
\* highestRarity - rarity + 1 and at least 1, totalWeight is their sum; the
\* rarities [1, 5] give 5, [5, 1] and 6.
C9_WeightsFromRarity ==
    last.check.outcome = "requested"
    => LET v == last.check.validMonsters
           h == last.check.highestRarity
           w == last.check.weights
       IN /\ \E i \in 1 .. Len(v) : v[i].rarity = h
          /\ \A i \in 1 .. Len(v) : v[i].rarity <= h
          /\ \A i \in 1 .. Len(v) : w[i] = h - v[i].rarity + 1 /\ w[i] >= 1
          /\ last.check.totalWeight = SumTo(w, Len(v))
          /\ (Len(v) = 2 /\ v[1].rarity = 1 /\ v[2].rarity = 5)
             => (h = 5 /\ w = <<5, 1>> /\ last.check.totalWeight = 6)

\* an encounter sampled among candidates of rarities 1 and 5
C9_Witness ==
    /\ last.check.outcome = "requested"
    /\ Len(last.check.validMonsters) = 2
    /\ last.check.validMonsters[1].rarity = 1
    /\ last.check.validMonsters[2].rarity = 5

\* C10: the chosen monster is the first candidate whose cumulative weight
\* exceeds the roll, and over the integer rolls 0 .. totalWeight-1 each
\* candidate is chosen for exactly as many rolls as its weight.
C10_FirstCumulativeAboveRoll ==
    last.check.outcome = "requested"
    => LET v == last.check.validMonsters
           w == last.check.weights
           c == last.check.chosen
           num == last.check.rollNum
           den == last.check.rollDen
       IN /\ c \in 1 .. Len(v)
          /\ last.check.chosenMonster = v[c]
          /\ SumTo(w, c) * den > num
          /\ \A j \in 1 .. c - 1 : SumTo(w, j) * den <= num
          /\ \A i \in 1 .. Len(v) :
               Cardinality({r \in 0 .. last.check.totalWeight - 1 :
                              ChosenIndex(v, r, 1) = i}) = w[i]

\* a roll went past the first candidate
C10_Witness ==
    /\ last.check.outcome = "requested"
    /\ last.check.chosen = 2
    /\ last.check.rollNum > 0

\* C11: the rolled level is an integer between minLevel and maxLevel, both
\* of which some draw reaches, and maxHealth is level * baseHealth.
C11_LevelInRange ==
    /\ last.check.outcome = "requested"
       => LET t == last.check.chosenMonster
              monster == last.check.monster
          IN /\ monster.level \in t.minLevel .. t.maxLevel
             /\ monster.maxHealth = monster.level * t.baseHealth
             /\ requests[Len(requests)].prompt.monster = monster
    /\ \A i \in 1 .. Len(MONSTERS) :
         /\ \E n \in LevelDraws : RollLevel(MONSTERS[i], n) = MONSTERS[i].minLevel
         /\ \E n \in LevelDraws : RollLevel(MONSTERS[i], n) = MONSTERS[i].maxLevel

\* a monster with a range of levels was rolled at its highest level
C11_Witness ==
    /\ last.check.outcome = "requested"
    /\ last.check.chosenMonster.minLevel < last.check.chosenMonster.maxLevel
    /\ last.check.monster.level = last.check.chosenMonster.maxLevel
    /\ last.check.monster.maxHealth > 0

IsResumeDispatch(c) ==
    c.op = "dispatch" /\ c.key = "ui" /\ c.partial = [isPaused |-> FALSE]
IsWindowOpen(c) == IsEmit(c, "WINDOW_OPEN")

\* C12: when the body of a response has been read the game is resumed, and
\* the very next step emits exactly one WINDOW_OPEN whose content is the
\* response text: no key press or click is handled between the two.
C12_ResumeThenWindowOpen ==
    [][ /\ last'.op = "jsonResolves"
           => \/ UNCHANGED vars
              \/ /\ Indices(last'.calls, IsResumeDispatch) # {}
                 /\ ~state'.ui.isPaused
                 /\ pending' # NoPending
                 /\ ~EmitsWindowOpen(last'.calls)
        /\ pending # NoPending
           => /\ last.op = "jsonResolves"
              /\ last'.op = "continuation"
              /\ Cardinality(Indices(last'.calls, IsWindowOpen)) = 1
              /\ \A i \in Indices(last'.calls, IsWindowOpen) :
                   last'.calls[i].data.content = <<pending.text>>
              /\ windows' = Append(windows, [title |-> "Encounter!",
                                             content |-> <<pending.text>>,
                                             buttons |-> <<"Close">>])
              /\ pending' = NoPending ]_vars

\* the window of an encounter has just been opened with the response text
C12_Witness ==
    /\ last.op = "continuation"
    /\ Len(windows) = 1
    /\ windows[1].title = "Encounter!"
    /\ windows[1].content = <<"a wolf appears">>

IsUpdateWorldInfo(c) == c.op = "updatePlayerWorldInfo"
IsCheck(c) == c.op = "checkForEncounters"

HereTerrain == GetTerrain(state.player.position.x, state.player.position.y)

\* C13: on a player move the world subtree is recomputed for the new position
\* before the encounter check runs, so the check reads the difficulty and the
\* biome of getTerrain at the player's position and sends that cell's description.
C13_WorldInfoBeforeCheck ==
    (last.op = "keydown" /\ EmitsPlayerMove(last.calls))
    => /\ \E u \in Indices(last.calls, IsUpdateWorldInfo) :
            \A c \in Indices(last.calls, IsCheck) : u < c
       /\ CheckDrew => last.check.difficulty = HereTerrain.terrain.difficulty
       /\ CheckTriggered => last.check.biome = HereTerrain.biomeName
       /\ last.check.outcome = "requested"
          => LET cell == requests[Len(requests)].prompt.currentTerrain
             IN /\ cell.biome = HereTerrain.biomeName
                /\ cell.type = HereTerrain.terrain.type

PauseOnlyTurns == {"windowClose", "jsonResolves", "continuation"}

\* the dispatches of a turn to subtree key that carry field f
DispatchesOf(calls, key, f) ==
    {i \in 1 .. Len(calls) :
       /\ calls[i].op = "dispatch"
       /\ calls[i].key = key
       /\ f \in DOMAIN calls[i].partial}

SetMax(S) == CHOOSE x \in S : \A y \in S : y <= x

\* a turn changes exactly the fields its dispatches name, to the value of the
\* last dispatch that names them
FieldsFollowDispatches ==
    /\ DOMAIN state' = DOMAIN state
    /\ \A key \in DOMAIN state :
         /\ DOMAIN state'[key] = DOMAIN state[key]
         /\ \A f \in DOMAIN state[key] :
              LET D == DispatchesOf(last'.calls, key, f)
              IN state'[key][f] = IF D = {} THEN state[key][f]
                                  ELSE last'.calls[SetMax(D)].partial[f]

\* the partial updates the orchestrator dispatches
PartialsAsWritten ==
    \A i \in 1 .. Len(last'.calls) :
       last'.calls[i].op = "dispatch"
       => /\ last'.calls[i].key = "ui"
             => DOMAIN last'.calls[i].partial = {"isPaused"}
          /\ last'.calls[i].key = "world"
             => DOMAIN last'.calls[i].partial = {"currentBiome", "currentTerrain"}
          /\ last'.calls[i].key = "player"
             => DOMAIN last'.calls[i].partial = {"position"}

\* C14 as stated: pause(), resume() and start() change ui.isPaused and leave
\* ui.windows, player and world unchanged.
C14_StartLeavesWorld ==
    [][ last'.op \in PauseOnlyTurns \cup {"start"}
        => /\ state'.ui.windows = state.ui.windows
           /\ state'.player = state.player
           /\ state'.world = state.world ]_vars

\* C14, amended: every dispatch changes only the fields of its partial update
\* in its subtree, visibly at once; pause() and resume() change ui.isPaused
\* alone; start() sets ui.isPaused to false and, through updatePlayerWorldInfo,
\* world.currentBiome and world.currentTerrain, leaving player and ui.windows.
C14_DispatchFrames ==
    [][ /\ FieldsFollowDispatches
        /\ PartialsAsWritten
        /\ last'.op \in PauseOnlyTurns
           => state' = [state EXCEPT !.ui.isPaused = state'.ui.isPaused]
        /\ last'.op = "start"
           => /\ state'.ui = [state.ui EXCEPT !.isPaused = FALSE]
              /\ state'.player = state.player
              /\ state'.world =
                   [currentBiome |-> HereTerrain.biomeName,
                    currentTerrain |-> HereTerrain.terrain] ]_vars

\* start() has just run and the world info has been observed
C14_Witness ==
    /\ last.op = "start"
    /\ ~state.ui.isPaused
    /\ state.world.currentTerrain = HereTerrain.terrain
    /\ state.ui.windows = <<>>

SettleTurns == {"fetchResolves", "fetchRejects", "jsonResolves", "jsonRejects"}

C17_ScanAlwaysFinds ==
    /\ last.check.outcome = "requested"
       => LET v == last.check.validMonsters
              h == last.check.highestRarity
          IN /\ v # <<>>
             /\ last.check.rollNum < last.check.totalWeight * last.check.rollDen
             /\ Find(v, h, 1, 0, last.check.rollNum, last.check.rollDen)
                  = last.check.chosen
             /\ \A r \in 0 .. last.check.totalWeight * RollDen - 1 :
                  Find(v, h, 1, 0, r, RollDen) \in 1 .. Len(v)
    /\ CheckTriggered
       => (last.check.validMonsters = <<>> <=> last.check.outcome = "threw")
    /\ last.check.outcome = "threw"
       => /\ ChosenIndex(last.check.validMonsters, 0, RollDen) = 0
          /\ requests = <<>>

\* the scan ran to the last of several candidates and found it
C17_Witness ==
    /\ last.check.outcome = "requested"
    /\ Len(last.check.validMonsters) >= 2
    /\ last.check.chosen = Len(last.check.validMonsters)
    /\ Find(last.check.validMonsters, last.check.highestRarity, 1, 0,
            last.check.rollNum, last.check.rollDen) = last.check.chosen

WorldIsHere ==
    state.world = [currentBiome |-> HereTerrain.biomeName,
                   currentTerrain |-> HereTerrain.terrain]

\* C18: once start() has run, between turns with ui.isPaused false the world
\* subtree is getTerrain at the player's position; every PLAYER_MOVE turn
\* leaves it so, also when its check triggers, pauses or throws in sampling.
C18_WorldFollowsPlayer ==
    /\ (started /\ pending = NoPending /\ ~state.ui.isPaused) => WorldIsHere
    /\ (last.op = "keydown" /\ EmitsPlayerMove(last.calls)) => WorldIsHere

\* after start(), a move whose sampling threw left the game running
C18_Witness ==
    /\ started
    /\ ~state.ui.isPaused
    /\ last.op = "keydown"
    /\ last.check.outcome = "threw"
    /\ state.player.position # [x |-> 0, y |-> 0]
    /\ WorldIsHere

====
